---- MODULE Spec2Model ----
(***************************************************************************)
(* A model of plugin.video.ElBarcoDeSabetOnline: core.py (CoreAddon) and   *)
(* default.py (KodiAddonWrapper).                                          *)
(*                                                                         *)
(* A Python str is a sequence of one-character strings; the two URL        *)
(* schemes of a stream link are single elements of such a sequence.        *)
(* Python's None is the one-element sequence <<"None">>, which no str is.  *)
(***************************************************************************)
EXTENDS Integers, Sequences, FiniteSets, TLC

None == <<"None">>

----------------------------------------------------------------------------
(* Python str primitives                                                   *)

\* The characters of the model in code-point order (str comparison).
Chars ==
  << " ", "#", "(", ")", "+", ",", "-", ".", "0", "1", "2", "7", "8", ":",
     "A", "B", "C", "D", "E", "F", "L", "M", "N", "P", "T", "X", "Z",
     "a", "c", "e", "f", "g", "h", "i", "l", "m", "n", "o", "r", "s", "t",
     "u", "v", "w" >>

Ord(c) == CHOOSE i \in 1..Len(Chars) : Chars[i] = c

\* s < t for Python str: lexicographic by code point, a proper prefix is less.
RECURSIVE StrLess(_, _)
StrLess(s, t) ==
  IF t = <<>> THEN FALSE
  ELSE IF s = <<>> THEN TRUE
  ELSE IF Head(s) = Head(t) THEN StrLess(Tail(s), Tail(t))
  ELSE Ord(Head(s)) < Ord(Head(t))

\* s[i:] starts with p
StartsWithAt(s, p, i) ==
  /\ i + Len(p) - 1 <= Len(s)
  /\ \A k \in 1..Len(p) : s[i + k - 1] = p[k]

\* str.replace(old, new): non-overlapping occurrences, left to right.
RECURSIVE ReplaceFrom(_, _, _, _)
ReplaceFrom(s, old, new, i) ==
  IF i > Len(s) THEN <<>>
  ELSE IF StartsWithAt(s, old, i) THEN new \o ReplaceFrom(s, old, new, i + Len(old))
  ELSE <<s[i]>> \o ReplaceFrom(s, old, new, i + 1)

str_replace(s, old, new) == ReplaceFrom(s, old, new, 1)

\* str.strip(): leading and trailing whitespace removed.
RECURSIVE lstrip(_)
lstrip(s) == IF s # <<>> /\ Head(s) = " " THEN lstrip(Tail(s)) ELSE s

RECURSIVE rstrip(_)
rstrip(s) ==
  IF s # <<>> /\ s[Len(s)] = " " THEN rstrip(SubSeq(s, 1, Len(s) - 1)) ELSE s

strip(s) == rstrip(lstrip(s))

\* s[-n:]
LastChars(s, n) == IF Len(s) <= n THEN s ELSE SubSeq(s, Len(s) - n + 1, Len(s))

\* x in list
InList(x, list) == \E i \in 1..Len(list) : list[i] = x

----------------------------------------------------------------------------
(* difflib, as find_closest_channel uses it (no junk; autojunk only acts   *)
(* on sequences of 200 elements or more)                                   *)

\* Length of the common run of a[i..ahi] and b[j..bhi].
RECURSIVE RunLen(_, _, _, _, _, _)
RunLen(a, b, i, ahi, j, bhi) ==
  IF i > ahi \/ j > bhi THEN 0
  ELSE IF a[i] # b[j] THEN 0
  ELSE 1 + RunLen(a, b, i + 1, ahi, j + 1, bhi)

\* Evaluate v once and apply F to it.
Bind(v, F(_)) == CHOOSE r \in {F(x) : x \in {v}} : TRUE

\* SequenceMatcher.find_longest_match(alo, ahi, blo, bhi) on the inclusive
\* ranges alo..ahi, blo..bhi: the longest block, earliest in a, then in b.
find_longest_match(a, b, alo, ahi, blo, bhi) ==
  LET Best(blocks) ==
        CHOOSE t \in blocks : \A u \in blocks :
          \/ t[3] > u[3]
          \/ /\ t[3] = u[3]
             /\ (t[1] < u[1] \/ (t[1] = u[1] /\ t[2] <= u[2]))
  IN  IF alo > ahi \/ blo > bhi THEN <<alo, blo, 0>>
      ELSE Bind({<<i, j, RunLen(a, b, i, ahi, j, bhi)>> : i \in alo..ahi, j \in blo..bhi},
                Best)

\* Sum of the sizes of SequenceMatcher.get_matching_blocks().
RECURSIVE Matches(_, _, _, _, _, _)
Matches(a, b, alo, ahi, blo, bhi) ==
  LET Split(m) ==
        IF m[3] = 0 THEN 0
        ELSE m[3] + Matches(a, b, alo, m[1] - 1, blo, m[2] - 1)
                  + Matches(a, b, m[1] + m[3], ahi, m[2] + m[3], bhi)
  IN  Bind(find_longest_match(a, b, alo, ahi, blo, bhi), Split)

\* SequenceMatcher.ratio() = 2.0*M/T as the pair <<2*M, T>>; 1.0 when T = 0.
ratio(a, b) ==
  LET T == Len(a) + Len(b)
  IN  IF T = 0 THEN <<1, 1>> ELSE <<2 * Matches(a, b, 1, Len(a), 1, Len(b)), T>>

RatioGE(r, s) == r[1] * s[2] >= s[1] * r[2]

\* cutoff=0.5 of find_closest_channel
Cutoff == <<1, 2>>

\* get_close_matches taking, among the entries of the greatest score, the
\* one that comes first in possibilities.
get_close_matches_first(word, possibilities, cutoff) ==
  LET good == {i \in 1..Len(possibilities) :
                 RatioGE(ratio(possibilities[i], word), cutoff)}
      best == {i \in good : \A j \in good :
                 RatioGE(ratio(possibilities[i], word), ratio(possibilities[j], word))}
  IN  IF good = {} THEN <<>>
      ELSE <<possibilities[CHOOSE i \in best : \A j \in best : i <= j]>>

\* difflib.get_close_matches(word, possibilities, n=1, cutoff): the entries
\* scoring at least cutoff, then heapq.nlargest(1, ...) over (score, x)
\* tuples, which is max(): the greatest score, and among equal scores the
\* greatest string.
get_close_matches(word, possibilities, cutoff) ==
  LET Largest(result) ==
        IF result = {} THEN <<>>
        ELSE LET best == CHOOSE r \in result : \A o \in result :
                            \/ ~RatioGE(o.score, r.score)
                            \/ /\ RatioGE(r.score, o.score)
                               /\ ~StrLess(r.x, o.x)
             IN  <<best.x>>
  IN  Bind({r \in {[score |-> ratio(possibilities[i], word), x |-> possibilities[i]] :
                     i \in 1..Len(possibilities)} : RatioGE(r.score, cutoff)},
           Largest)

\* CoreAddon.find_closest_channel
find_closest_channel(channel_name, channels_names) ==
  LET closest_matches == get_close_matches(channel_name, channels_names, Cutoff)
  IN  IF closest_matches # <<>> THEN closest_matches[1] ELSE None

----------------------------------------------------------------------------
(* Literals of core.py                                                     *)

\* "Movistar Plus+" (core.py:239) and "M.Plus 1080" (core.py:240)
MovistarPlus == <<"M","o","v","i","s","t","a","r"," ","P","l","u","s","+">>
MPlus1080 == <<"M",".","P","l","u","s"," ","1","0","8","0">>

Q720 == <<"7","2","0">>
Q1080 == <<"1","0","8","0">>
\* ["720", "1080"] (core.py:248)
Qualities == <<Q720, Q1080>>

\* "N/A" (core.py:88)
NA == <<"N","/","A">>

AceScheme == "acestream://"
HorusScheme == "plugin://script.module.horus?action=play&id="

----------------------------------------------------------------------------
(* extract_program_links and extract_channel_links                         *)
(* An html body is a sequence of anchors [href, text]; the empty sequence  *)
(* is the empty body.                                                      *)

\* re.findall(r'<a href="(acestream://[^"]+)"[^>]*>(.*?)</a>', html)
patrones(html) ==
  SelectSeq(html, LAMBDA a : Len(a.href) >= 2 /\ a.href[1] = AceScheme)

\* enlace.replace("acestream://", "plugin://script.module.horus?action=play&id=")
nuevo_enlace(enlace) == str_replace(enlace, <<AceScheme>>, <<HorusScheme>>)

\* titulos of extract_program_links (core.py:222-226)
program_titulos(html) ==
  [i \in 1..Len(patrones(html)) |-> strip(patrones(html)[i].text)]

\* enlaces of extract_program_links (core.py:222-227): a dict, so the last
\* anchor of a title gives its link.
program_enlaces(html) ==
  LET p == patrones(html)
      t == program_titulos(html)
      last(title) == CHOOSE i \in 1..Len(p) :
                        t[i] = title /\ \A j \in (i + 1)..Len(p) : t[j] # title
  IN  [title \in {t[i] : i \in 1..Len(p)} |-> nuevo_enlace(p[last(title)].href)]

\* core.py:233
titulos_without_quality(titulos) ==
  [i \in 1..Len(titulos) |->
     str_replace(str_replace(titulos[i], Q720, <<>>), Q1080, <<>>)]

\* f"# {program.day}" (core.py:237-238)
DayComment(day) == <<"#", " ">> \o day

\* f"{program.sport} {program.time} {program.event} ({new_closest_tvg_id})"
EventLabel(program, tvg_id) ==
  program.sport \o <<" ">> \o program.time \o <<" ">> \o program.event
    \o <<" ", "(">> \o tvg_id \o <<")">>

\* The placeholder link without its leading "# "
NoMatchLink_unmarked(program) ==
  <<"N", "o matching channel for ">> \o program.event
    \o <<", this was the channel: ">> \o program.channel

\* core.py:263
NoMatchLink(program) ==
  <<"#", " No matching channel for ">> \o program.event
    \o <<", this was the channel: ">> \o program.channel

\* core.py:264
NoMatchLabel(program) ==
  program.sport \o <<" ">> \o program.time \o <<" ">> \o program.event
    \o <<" - No match for ">> \o program.channel

\* The day check with last_date never compared: a comment before every program.
DayRows_every_program(program, last_date) ==
  [enlaces |-> <<DayComment(program.day)>>, titulos |-> <<DayComment(program.day)>>]

\* The day check comparing with None only: a comment before the first program.
DayRows_first_only(program, last_date) ==
  IF last_date = None
  THEN [enlaces |-> <<DayComment(program.day)>>,
        titulos |-> <<DayComment(program.day)>>]
  ELSE [enlaces |-> <<>>, titulos |-> <<>>]

\* core.py:235-238: the rows the day check appends, as [enlaces, titulos].
DayRows(program, last_date) ==
  IF program.day # last_date
  THEN [enlaces |-> <<DayComment(program.day)>>,
        titulos |-> <<DayComment(program.day)>>]
  ELSE [enlaces |-> <<>>, titulos |-> <<>>]

\* closest_tvg_id without the "Movistar Plus+" branch
closest_tvg_id_no_alias(program, titulos) ==
  find_closest_channel(program.channel, titulos_without_quality(titulos))

\* core.py:239-244
closest_tvg_id(program, titulos) ==
  IF program.channel = MovistarPlus THEN MPlus1080
  ELSE find_closest_channel(program.channel, titulos_without_quality(titulos))

\* The quality loop leaving at its first hit (a break after the append).
RECURSIVE QualityRows_first_hit(_, _, _, _, _)
QualityRows_first_hit(program, closest, titulos, enlaces, q) ==
  IF q > Len(Qualities) THEN [enlaces |-> <<>>, titulos |-> <<>>]
  ELSE LET new_closest_tvg_id == closest \o Qualities[q]
       IN  IF InList(new_closest_tvg_id, titulos)
           THEN [enlaces |-> <<enlaces[new_closest_tvg_id]>>,
                 titulos |-> <<EventLabel(program, new_closest_tvg_id)>>]
           ELSE QualityRows_first_hit(program, closest, titulos, enlaces, q + 1)

\* core.py:248-255: the rows of the quality loop from Qualities[q] on.
RECURSIVE QualityRows(_, _, _, _, _)
QualityRows(program, closest, titulos, enlaces, q) ==
  IF q > Len(Qualities) THEN [enlaces |-> <<>>, titulos |-> <<>>]
  ELSE LET rest == QualityRows(program, closest, titulos, enlaces, q + 1)
           new_closest_tvg_id == closest \o Qualities[q]
       IN  IF InList(new_closest_tvg_id, titulos)
           THEN [enlaces |-> <<enlaces[new_closest_tvg_id]>> \o rest.enlaces,
                 titulos |-> <<EventLabel(program, new_closest_tvg_id)>> \o rest.titulos]
           ELSE rest

\* The rows for a program with the placeholder appended whatever was found.
MatchRows_placeholder_always(program, closest, titulos, enlaces) ==
  IF closest = None \/ closest = <<>> THEN [enlaces |-> <<>>, titulos |-> <<>>]
  ELSE LET quality == QualityRows(program, closest, titulos, enlaces, 1)
           plain == IF InList(closest, titulos)
                    THEN [enlaces |-> <<enlaces[closest]>>,
                          titulos |-> <<EventLabel(program, closest)>>]
                    ELSE [enlaces |-> <<>>, titulos |-> <<>>]
       IN  [enlaces |-> quality.enlaces \o plain.enlaces \o <<NoMatchLink(program)>>,
            titulos |-> quality.titulos \o plain.titulos \o <<NoMatchLabel(program)>>]

\* core.py:246-264: the rows appended for a program once closest_tvg_id is
\* known. A None or empty closest_tvg_id is falsy and appends nothing.
MatchRows(program, closest, titulos, enlaces) ==
  IF closest = None \/ closest = <<>> THEN [enlaces |-> <<>>, titulos |-> <<>>]
  ELSE LET quality == QualityRows(program, closest, titulos, enlaces, 1)
           plain == IF InList(closest, titulos)
                    THEN [enlaces |-> <<enlaces[closest]>>,
                          titulos |-> <<EventLabel(program, closest)>>]
                    ELSE [enlaces |-> <<>>, titulos |-> <<>>]
           found == quality.enlaces # <<>> \/ plain.enlaces # <<>>
       IN  IF found
           THEN [enlaces |-> quality.enlaces \o plain.enlaces,
                 titulos |-> quality.titulos \o plain.titulos]
           ELSE [enlaces |-> <<NoMatchLink(program)>>,
                 titulos |-> <<NoMatchLabel(program)>>]

\* The iteration with the day comment appended to new_enlaces only.
program_step_day_link_only(st, program, titulos, enlaces) ==
  LET day == DayRows(program, st.last_date)
      rows == MatchRows(program, closest_tvg_id(program, titulos), titulos, enlaces)
  IN  [last_date |-> program.day,
       new_enlaces |-> st.new_enlaces \o day.enlaces \o rows.enlaces,
       new_titulos |-> st.new_titulos \o rows.titulos]

\* One iteration of the loop over self.tv_programs (core.py:234-264) on the
\* loop state st = [last_date, new_enlaces, new_titulos].
program_step(st, program, titulos, enlaces) ==
  LET day == DayRows(program, st.last_date)
      rows == MatchRows(program, closest_tvg_id(program, titulos), titulos, enlaces)
  IN  [last_date |-> program.day,
       new_enlaces |-> st.new_enlaces \o day.enlaces \o rows.enlaces,
       new_titulos |-> st.new_titulos \o day.titulos \o rows.titulos]

\* The loop of core.py:234-264 over programs[i..], from loop state st.
RECURSIVE programs_loop(_, _, _, _, _)
programs_loop(st, programs, i, titulos, enlaces) ==
  IF i > Len(programs) THEN st
  ELSE programs_loop(program_step(st, programs[i], titulos, enlaces),
                     programs, i + 1, titulos, enlaces)

\* CoreAddon.extract_program_links: [new_enlaces, new_titulos, last_date]
extract_program_links(html, programs) ==
  programs_loop([last_date |-> None, new_enlaces |-> <<>>, new_titulos |-> <<>>],
                programs, 1, program_titulos(html), program_enlaces(html))

\* CoreAddon.extract_channel_links: [enlaces, titulos]
extract_channel_links(html) ==
  LET p == patrones(html)
  IN  [enlaces |-> [i \in 1..Len(p) |-> nuevo_enlace(p[i].href)],
       titulos |-> [i \in 1..Len(p) |->
                      strip(p[i].text) \o <<" ">> \o LastChars(Tail(p[i].href), 4)]]

----------------------------------------------------------------------------
(* get_tv_programs                                                         *)
(* The schedule page is the sequence, in document order, of its            *)
(* li.content-item day sections [li |-> "content-item", span] and their    *)
(* li.dailyevent rows [li |-> "dailyevent", hour, teams, channel, sport];  *)
(* a row belongs to the last section before it. A sub-element is its text  *)
(* or None when absent.                                                    *)

\* tag.text.strip() if tag else "N/A" (core.py:88-93)
text_or_na(tag) == IF tag = None THEN NA ELSE strip(tag)

\* Event(day, time_text, event_name, channel, sport) (core.py:98)
Event(day, time, event, channel, sport) ==
  [day |-> day, time |-> time, event |-> event, channel |-> channel, sport |-> sport]

\* event_id with the sport label in the key
event_id_with_sport(e) == <<e.day, e.time, e.event, e.channel, e.sport>>

\* event_id (core.py:95)
event_id(e) == <<e.day, e.time, e.event, e.channel>>

\* The next day section (core.py:73-79) on the parse state
\* st = [section_no, day, events_data, seen_events]: the first section is
\* dropped by day_sections[1:], a section without span is passed over; day is
\* None while the rows of the current section are not visited.
section_step(st, section) ==
  [st EXCEPT !.section_no = st.section_no + 1,
             !.day = IF st.section_no = 0 \/ section.span = None
                     THEN None ELSE strip(section.span)]

\* The next event row (core.py:82-100).
row_step(st, row) ==
  IF st.day = None THEN st
  ELSE LET e == Event(st.day, text_or_na(row.hour), text_or_na(row.teams),
                      text_or_na(row.channel), text_or_na(row.sport))
       IN  IF event_id(e) \notin st.seen_events
           THEN [st EXCEPT !.events_data = Append(st.events_data, e),
                           !.seen_events = st.seen_events \cup {event_id(e)}]
           ELSE st

element_step(st, el) ==
  IF el.li = "content-item" THEN section_step(st, el) ELSE row_step(st, el)

RECURSIVE elements_loop(_, _, _)
elements_loop(st, page, i) ==
  IF i > Len(page) THEN st
  ELSE elements_loop(element_step(st, page[i]), page, i + 1)

ParseStart ==
  [section_no |-> 0, day |-> None, events_data |-> <<>>, seen_events |-> {}]

\* CoreAddon.get_tv_programs on a fetched page (core.py:68-104)
get_tv_programs(page) == elements_loop(ParseStart, page, 1).events_data

----------------------------------------------------------------------------
(* load_cache and save_cache                                               *)
(* A dict is a function on its keys. The cache file is Missing or the      *)
(* sequence of the chunks written to it: "{", the members, "," between     *)
(* them, "}"; a file cut inside a multi-byte character ends with Torn.     *)

EmptyDict == <<>>

\* The keys of cache_data in insertion order (core.py:355-362)
KeyOrder ==
  << "enlaces_eventos", "titulos_eventos", "enlaces_canal", "titulos_canal",
     "origen", "fecha" >>

StrKeys == {"origen", "fecha"}

Missing == << [tok |-> "missing"] >>
Torn == [tok |-> "torn"]
Punct(c) == [tok |-> c]
Member(key, value) == [tok |-> "member", key |-> key, value |-> value]

\* Characters that UTF-8 encodes in more than one byte (ensure_ascii=False
\* writes them as they are).
MultiByte == {"ú"}

\* json.encoder.encode_basestring: quotes around the text, a backslash
\* before each quote and backslash of it.
RECURSIVE escaped(_, _)
escaped(s, i) ==
  IF i > Len(s) THEN <<>>
  ELSE (IF s[i] \in {"\"", "\\"} THEN <<"\\", s[i]>> ELSE <<s[i]>>)
         \o escaped(s, i + 1)

encode_basestring(s) == <<"\"">> \o escaped(s, 1) \o <<"\"">>

\* json.decoder.scanstring from position i of the text inside the quotes:
\* the character after a backslash is taken as it is.
RECURSIVE unescaped(_, _)
unescaped(t, i) ==
  IF i > Len(t) THEN <<>>
  ELSE IF t[i] = "\\" /\ i < Len(t) THEN <<t[i + 1]>> \o unescaped(t, i + 2)
  ELSE <<t[i]>> \o unescaped(t, i + 1)

scanstring(t) == unescaped(SubSeq(t, 2, Len(t) - 1), 1)

\* The JSON text of a value of cache_data: a string, or a list of strings.
encode_value(key, value) ==
  IF key \in StrKeys THEN encode_basestring(value)
  ELSE [i \in 1..Len(value) |-> encode_basestring(value[i])]

decode_value(key, text) ==
  IF key \in StrKeys THEN scanstring(text)
  ELSE [i \in 1..Len(text) |-> scanstring(text[i])]

\* The member's text holds a multi-byte character.
HasMultiByte(m) ==
  /\ m.tok = "member"
  /\ IF m.key \in StrKeys
     THEN \E j \in 1..Len(m.value) : m.value[j] \in MultiByte
     ELSE \E i \in 1..Len(m.value) : \E j \in 1..Len(m.value[i]) :
            m.value[i][j] \in MultiByte

\* The members of data for the keys KeyOrder[i..], "," between them.
RECURSIVE Members(_, _, _)
Members(data, i, first) ==
  IF i > Len(KeyOrder) THEN <<>>
  ELSE IF KeyOrder[i] \notin DOMAIN data THEN Members(data, i + 1, first)
  ELSE (IF first THEN <<>> ELSE <<Punct(",")>>)
         \o <<Member(KeyOrder[i], encode_value(KeyOrder[i], data[KeyOrder[i]]))>>
         \o Members(data, i + 1, FALSE)

\* json.dump(data, f, ensure_ascii=False, indent=4): the chunks written
json_dump(data) == <<Punct("{")>> \o Members(data, 1, TRUE) \o <<Punct("}")>>

\* The bytes of the file are not UTF-8: reading raises UnicodeDecodeError.
Undecodable(file) == \E i \in 1..Len(file) : file[i] = Torn

\* The text of the file is a JSON object.
IsJson(file) ==
  /\ Len(file) >= 2
  /\ file[1] = Punct("{")
  /\ file[Len(file)] = Punct("}")
  /\ LET inner == SubSeq(file, 2, Len(file) - 1)
     IN  /\ inner # <<>> => Len(inner) % 2 = 1
         /\ \A i \in 1..Len(inner) :
              IF i % 2 = 1 THEN inner[i].tok = "member" ELSE inner[i] = Punct(",")

\* json.load of a JSON object: the last member of a key gives its value.
json_load(file) ==
  LET at == {i \in 2..(Len(file) - 1) : file[i].tok = "member"}
      last(key) == CHOOSE i \in at :
                     file[i].key = key /\ \A j \in at : file[j].key = key => j <= i
  IN  [key \in {file[i].key : i \in at} |->
         decode_value(key, file[last(key)].value)]

\* CoreAddon.load_cache: [raised, cache]. raised: an exception other than
\* IOError and json.JSONDecodeError leaves load_cache (core.py:126).
load_cache(file) ==
  IF file = Missing THEN [raised |-> FALSE, cache |-> EmptyDict]
  ELSE IF Undecodable(file) THEN [raised |-> TRUE, cache |-> EmptyDict]
  ELSE IF ~IsJson(file) THEN [raised |-> FALSE, cache |-> EmptyDict]
  ELSE [raised |-> FALSE, cache |-> json_load(file)]

\* open(self.cache_file, "x"): a cache file that is there is not written.
written_file_kept(file, data) ==
  IF file = Missing THEN json_dump(data) ELSE file

\* open(self.cache_file, "a"): the chunks follow what the file held.
written_file_appended(file, data) ==
  (IF file = Missing THEN <<>> ELSE file) \o json_dump(data)

\* CoreAddon.save_cache when the write completes: open(..., "w") truncates.
written_file(file, data) == json_dump(data)

\* The files a save_cache that stops midway can leave: the file truncated
\* by open(..., "w") with nothing written, the file short of its last
\* chunk, and a file cut inside a multi-byte character of the next chunk.
interrupted_files(data) ==
  LET full == json_dump(data)
  IN  {SubSeq(full, 1, k) : k \in {0, Len(full) - 1}}
        \cup {Append(SubSeq(full, 1, k), Torn) :
                k \in {j \in 0..(Len(full) - 1) : HasMultiByte(full[j + 1])}}

\* if cache: / if cache_data:
Truthy(dict) == dict # EmptyDict

----------------------------------------------------------------------------
(* update_list: the connection chain                                       *)
(* get_web_content returns [ok, text]: ok is FALSE for None; text is the   *)
(* body. A request of the log is [url, proxy, got]: got says whether the   *)
(* call returned a non-empty body.                                         *)

PROXIES_URL ==
  "https://api.proxyscrape.com/v4/free-proxy-list/get?request=display_proxies&proxy_format=protocolipport&format=json"
PrincipalUrl == "https://elcano.top"
EspejoUrl == "https://viendoelfutbolporlaface.pages.dev/"

NoContent == [ok |-> FALSE, text |-> <<>>]

\* if content:
HasContent(content) == content.ok /\ content.text # <<>>

\* What requests.get is given (core.py:200-206): no proxy for a proxy that
\* is None or empty.
Request(url, proxy, content) ==
  [url |-> url, proxy |-> IF proxy = <<>> THEN None ELSE proxy,
   got |-> HasContent(content)]

\* urllib.request.urlopen(url) of fetch_proxies (core.py:174)
ProxiesRequest(proxies) == [url |-> PROXIES_URL, proxy |-> None, got |-> proxies # <<>>]

\* The provider's list taken whole, whatever the continent of an entry.
filter_every_proxy(proxies) == [i \in 1..Len(proxies) |-> proxies[i].proxy]

\* CoreAddon.filter_asian_proxies
filter_asian_proxies(proxies) ==
  LET asia == SelectSeq(proxies, LAMBDA proxy :
                /\ proxy.ip_data # EmptyDict
                /\ "continentCode" \in DOMAIN proxy.ip_data
                /\ proxy.ip_data["continentCode"] = "AS")
  IN  [i \in 1..Len(asia) |-> asia[i].proxy]

N_NoProxies == <<"Error", "No proxies found.">>
N_Direct == <<"Connection", "Attempting to connect without proxy">>
N_Proxies == <<"Proxy", "Attempting to connect using proxies">>
N_Trying(proxy) == <<"Proxy", "Trying proxy: ">> \o proxy
\* The exhaustion notification under the heading of the proxy phase
N_AllProxiesFailed_as_proxy == <<"Proxy", "Failed to retrieve content with all proxies.">>

N_AllProxiesFailed == <<"Error", "Failed to retrieve content with all proxies.">>
N_SecondaryFailed == <<"Error", "Failed to retrieve content from secondary URL.">>
N_Updated == <<"Success", "List updated successfully.">>
N_NotUpdated == <<"Error", "Failed to update the list.">>
N_CacheEmpty == <<"Info", "Cache is empty. Please update the list first.">>
N_NoLinks == <<"Info", "No links available. Please update the list.">>

\* The proxy loop going on to the next proxy after a proxy gave content.
proxy_loop_no_break(content, i, n) ==
  IF i < n THEN "next" ELSE IF HasContent(content) THEN "break" ELSE "else"

\* for proxy in asian_proxies (core.py:319-332) after the fetch through
\* proxy i of n: leave with break, take the next proxy, or run the else.
proxy_loop(content, i, n) ==
  IF HasContent(content) THEN "break" ELSE IF i < n THEN "next" ELSE "else"

\* core.py:334-344 with the locals of update_list: the outcomes, one for
\* each thing the fetch of the secondary URL can return if it is made.
after_connection(content, requests, notifications, responses) ==
  IF ~HasContent(content)
  THEN { IF ~HasContent(secondary)
         THEN [pc |-> "updated", content |-> secondary,
               requests |-> Append(requests, Request(EspejoUrl, None, secondary)),
               notifications |-> Append(notifications, N_SecondaryFailed)]
         ELSE [pc |-> "extract", content |-> secondary,
               requests |-> Append(requests, Request(EspejoUrl, None, secondary)),
               notifications |-> notifications] : secondary \in responses }
  ELSE { [pc |-> "extract", content |-> content, requests |-> requests,
          notifications |-> notifications] }

\* cache_data of update_list (core.py:346-362)
make_cache_data(content, programs, fecha) ==
  LET eventos == extract_program_links(content.text, programs)
      canal == extract_channel_links(content.text)
  IN  [enlaces_eventos |-> eventos.new_enlaces,
       titulos_eventos |-> eventos.new_titulos,
       enlaces_canal |-> canal.enlaces,
       titulos_canal |-> canal.titulos,
       origen |-> <<"Servidor Principal">>,
       fecha |-> fecha]

----------------------------------------------------------------------------
(* show_directos: the directory items of the cached event rows             *)

\* link.startswith("#"); the two scheme elements begin with "a" and "p".
startswith_hash(link) == link # <<>> /\ link[1] = "#"

\* for title, link in zip(titulos_eventos, enlaces_eventos)
\* (default.py:129-143): [label, url, IsPlayable] of each item added.
directory_items(titulos_eventos, enlaces_eventos) ==
  LET n == IF Len(titulos_eventos) < Len(enlaces_eventos)
           THEN Len(titulos_eventos) ELSE Len(enlaces_eventos)
  IN  [i \in 1..n |-> [label |-> titulos_eventos[i],
                       url |-> enlaces_eventos[i],
                       IsPlayable |-> ~startswith_hash(enlaces_eventos[i])]]

----------------------------------------------------------------------------
(* State                                                                   *)

VARIABLES
  pc,            \* the position of the running call
  \* get_tv_programs
  page,          \* the schedule page read so far, in document order
  section_no,    \* day sections met so far
  day,           \* day of the section being visited, None when it is not visited
  events_data,
  seen_events,
  \* extract_program_links
  html,          \* the body handed to extract_program_links
  titulos,
  enlaces,
  tv_programs,   \* self.tv_programs (the programs the loop has taken so far)
  last_date,
  new_enlaces,
  new_titulos,
  \* update_list and the add-on wrapper
  action,        \* the action of the running invocation
  proxies,
  asian_proxies,
  proxy_i,       \* position of the proxy loop in asian_proxies
  content,
  requests,      \* the fetches made by the running invocation, in order
  notifications, \* the notifications of the running invocation, in order
  cache_data,    \* what update_list returned
  \* the cache
  cache_file,
  cache,         \* what the last load_cache returned
  cache_op,      \* the last cache call: [op, data, status, held]; held is
                 \* the mapping the cache file held when the call began
  cache_prev,    \* the cache call before the last
  \* two processes on the cache file
  saver,         \* the process in save_cache: [at, data]
  loader,        \* the process in load_cache: [at, buffer, pos], buffer
                 \* being what f.read() has read so far, pos its bytes
  saves          \* the data of the save_cache calls begun so far, in order

schedVars == <<page, section_no, day, events_data, seen_events>>
recVars == <<html, titulos, enlaces, tv_programs, last_date, new_enlaces, new_titulos>>
netVars ==
  <<action, proxies, asian_proxies, proxy_i, content, requests, notifications, cache_data>>
procVars == <<saver, loader, saves>>
cacheVars == <<cache_file, cache, cache_op, cache_prev, procVars>>
vars == <<pc, schedVars, recVars, netVars, cacheVars>>

SchedIdle ==
  /\ page = <<>> /\ section_no = 0 /\ day = None
  /\ events_data = <<>> /\ seen_events = {}

RecIdle ==
  /\ html = <<>> /\ titulos = <<>> /\ enlaces = <<>> /\ tv_programs = <<>>
  /\ last_date = None /\ new_enlaces = <<>> /\ new_titulos = <<>>

NetIdle ==
  /\ action = "none" /\ proxies = <<>> /\ asian_proxies = <<>> /\ proxy_i = 0
  /\ content = NoContent /\ requests = <<>> /\ notifications = <<>>
  /\ cache_data = EmptyDict

NoCacheOp == [op |-> "none", data |-> EmptyDict, status |-> "none", held |-> EmptyDict]

SaverIdle == [at |-> "idle", data |-> EmptyDict]
LoaderIdle == [at |-> "idle", buffer |-> <<>>, pos |-> 0]

CacheIdle ==
  /\ cache_file = Missing /\ cache = EmptyDict
  /\ cache_op = NoCacheOp /\ cache_prev = NoCacheOp
  /\ saver = SaverIdle /\ loader = LoaderIdle /\ saves = <<>>

\* All sequences over S of length at most n.
RECURSIVE SeqsUpTo(_, _)
SeqsUpTo(S, n) ==
  IF n = 0 THEN {<<>>}
  ELSE LET shorter == SeqsUpTo(S, n - 1)
       IN  shorter \cup {Append(q, e) : q \in {r \in shorter : Len(r) = n - 1}, e \in S}

----------------------------------------------------------------------------
(* SpecSchedule: get_tv_programs reading a schedule page                   *)

MaxPage == 5

DaySections ==
  { [li |-> "content-item", span |-> sp] :
      sp \in {None, <<"L">>, <<" ", "L", " ">>, <<"M">>} }

DailyEvent(hour, teams, channel, sport) ==
  [li |-> "dailyevent", hour |-> hour, teams |-> teams, channel |-> channel,
   sport |-> sport]

DailyEvents ==
  { DailyEvent(<<"1">>, <<"E">>, <<"A">>, <<"F">>),
    DailyEvent(<<" ", "1">>, <<"E", " ">>, <<"A">>, <<"T">>),
    DailyEvent(<<"2">>, <<"E">>, <<"A">>, <<"F">>),
    DailyEvent(None, <<"E">>, None, None) }

InitSchedule ==
  /\ pc = "get_tv_programs"
  /\ SchedIdle
  /\ RecIdle
  /\ NetIdle
  /\ CacheIdle

ParseState ==
  [section_no |-> section_no, day |-> day, events_data |-> events_data,
   seen_events |-> seen_events]

Parsed(st) ==
  /\ section_no' = st.section_no
  /\ day' = st.day
  /\ events_data' = st.events_data
  /\ seen_events' = st.seen_events

\* for day_section in day_sections (core.py:73-79)
day_section ==
  /\ pc = "get_tv_programs"
  /\ Len(page) < MaxPage
  /\ \E section \in DaySections :
       /\ page' = Append(page, section)
       /\ Parsed(section_step(ParseState, section))
  /\ UNCHANGED <<pc, recVars, netVars, cacheVars>>

\* for event in events (core.py:82-100); a row lies inside a day section
dailyevent ==
  /\ pc = "get_tv_programs"
  /\ Len(page) < MaxPage
  /\ section_no > 0
  /\ \E row \in DailyEvents :
       /\ page' = Append(page, row)
       /\ Parsed(row_step(ParseState, row))
  /\ UNCHANGED <<pc, recVars, netVars, cacheVars>>

\* return events_data (core.py:104)
return_events_data ==
  /\ pc = "get_tv_programs"
  /\ pc' = "returned"
  /\ tv_programs' = events_data
  /\ UNCHANGED <<schedVars, html, titulos, enlaces, last_date, new_enlaces, new_titulos, netVars, cacheVars>>

NextSchedule == day_section \/ dailyevent \/ return_events_data

SpecSchedule == InitSchedule /\ [][NextSchedule]_vars

----------------------------------------------------------------------------
(* SpecReconcile: extract_program_links on a body and a schedule           *)

MaxAnchors == 3
MaxEvents == 3

\* Anchor texts of the stream listing.
AnchorTexts ==
  { <<"A", "7", "2", "0">>,
    <<"A", "1", "0", "8", "0">>,
    <<" ", "A", " ">>,
    <<"7", "2", "0", "A">>,
    MPlus1080,
    MPlus1080 \o Q720 }

\* The stream id of the i-th anchor of a body.
StreamId(i) == <<"f", "0", "0", "0", ToString(i)>>

AceAnchor(i, text) == [href |-> <<AceScheme>> \o StreamId(i), text |-> text]

Htmls ==
  { [i \in 1..Len(texts) |-> AceAnchor(i, texts[i])] :
      texts \in SeqsUpTo(AnchorTexts, MaxAnchors) }

\* Schedule rows as get_tv_programs returns them: no two equal on event_id.
Programs ==
  { Event(<<"L">>, <<"1">>, <<"E">>, <<"A">>, <<"F">>),
    Event(<<"M">>, <<"1">>, <<"E">>, <<"A">>, <<"F">>),
    Event(<<"L">>, <<"1">>, <<"E">>, MovistarPlus, <<"F">>),
    Event(<<"L">>, <<"1">>, <<"E">>, <<"Z">>, <<"F">>) }

InitReconcile ==
  /\ pc = "extract_program_links"
  /\ SchedIdle
  /\ html \in Htmls
  /\ titulos = <<>> /\ enlaces = <<>> /\ tv_programs = <<>>
  /\ last_date = None /\ new_enlaces = <<>> /\ new_titulos = <<>>
  /\ NetIdle
  /\ CacheIdle

\* core.py:218-233
find_patrones ==
  /\ pc = "extract_program_links"
  /\ pc' = "for_program"
  /\ titulos' = program_titulos(html)
  /\ enlaces' = program_enlaces(html)
  /\ last_date' = None
  /\ new_enlaces' = <<>>
  /\ new_titulos' = <<>>
  /\ UNCHANGED <<schedVars, html, tv_programs, netVars, cacheVars>>

\* for program in self.tv_programs (core.py:234-264)
for_program ==
  /\ pc = "for_program"
  /\ Len(tv_programs) < MaxEvents
  /\ \E program \in Programs :
       /\ \A i \in 1..Len(tv_programs) : event_id(tv_programs[i]) # event_id(program)
       /\ tv_programs' = Append(tv_programs, program)
       /\ LET st == program_step([last_date |-> last_date, new_enlaces |-> new_enlaces,
                                  new_titulos |-> new_titulos],
                                 program, titulos, enlaces)
          IN  /\ last_date' = st.last_date
              /\ new_enlaces' = st.new_enlaces
              /\ new_titulos' = st.new_titulos
  /\ UNCHANGED <<pc, schedVars, html, titulos, enlaces, netVars, cacheVars>>

\* return new_enlaces, new_titulos (core.py:266-267)
return_program_links ==
  /\ pc = "for_program"
  /\ pc' = "returned"
  /\ UNCHANGED <<schedVars, recVars, netVars, cacheVars>>

NextReconcile == find_patrones \/ for_program \/ return_program_links

SpecReconcile == InitReconcile /\ [][NextReconcile]_vars

----------------------------------------------------------------------------
(* SpecCache: save_cache and load_cache on one cache file                  *)

\* time.strftime("%Y-%m-%d %H:%M:%S") (core.py:361)
Fechas == { <<"2", "0", "2", "4", "-", "0", "1", "-", "0", "1", " ", "0", "0", ":", "0", "0", ":", "0", "0">> }

\* Bodies and schedules whose snapshots are saved.
CacheHtmls ==
  { << AceAnchor(1, <<"A", "7", "2", "0">>), AceAnchor(2, <<"\"", "B", "\\">>) >>,
    << AceAnchor(1, <<"A">>) >> }

CacheSchedules ==
  { <<>>, << Event(<<"L">>, <<"1">>, <<"E">>, <<"A">>, <<"F", "ú">>) >> }

Snapshots ==
  { make_cache_data([ok |-> TRUE, text |-> h], programs, fecha) :
      h \in CacheHtmls, programs \in CacheSchedules, fecha \in Fechas }
    \cup {EmptyDict}

InitCache ==
  /\ pc = "cache"
  /\ SchedIdle
  /\ RecIdle
  /\ NetIdle
  /\ CacheIdle

\* The state after load_cache() on the cache file.
LoadCache ==
  LET r == load_cache(cache_file)
  IN  /\ cache' = r.cache
      /\ cache_prev' = cache_op
      /\ cache_op' = [op |-> "load", data |-> r.cache,
                      status |-> IF r.raised THEN "raised" ELSE "returned",
                      held |-> r.cache]
      /\ UNCHANGED <<cache_file, procVars>>

\* The state after save_cache(data) when the write completes.
SaveCache(data) ==
  /\ cache_file' = written_file(cache_file, data)
  /\ cache_prev' = cache_op
  /\ cache_op' = [op |-> "save", data |-> data, status |-> "saved",
                  held |-> load_cache(cache_file).cache]
  /\ UNCHANGED <<cache, procVars>>

\* The state after save_cache(data) when the write stops with IOError.
SaveCacheIOError(data) ==
  /\ cache_file' \in interrupted_files(data)
  /\ cache_prev' = cache_op
  /\ cache_op' = [op |-> "save", data |-> data, status |-> "failed",
                  held |-> load_cache(cache_file).cache]
  /\ UNCHANGED <<cache, procVars>>

\* load_cache()
cache_load ==
  /\ pc = "cache"
  /\ LoadCache
  /\ UNCHANGED <<pc, schedVars, recVars, netVars>>

\* save_cache(data)
cache_save ==
  /\ pc = "cache"
  /\ \E data \in Snapshots : SaveCache(data)
  /\ UNCHANGED <<pc, schedVars, recVars, netVars>>

\* save_cache(data), the write failing (core.py:136-137)
cache_save_IOError ==
  /\ pc = "cache"
  /\ \E data \in Snapshots : SaveCacheIOError(data)
  /\ UNCHANGED <<pc, schedVars, recVars, netVars>>

NextCache == cache_load \/ cache_save \/ cache_save_IOError

SpecCache == InitCache /\ [][NextCache]_vars

----------------------------------------------------------------------------
(* Spec: invocations of the add-on, one after the other, on one cache file *)

MaxProxies == 2

Actions == {"menu", "directos", "canales", "exportar_m3u", "actualizar_lista"}

\* Entries of the provider's list: two in Asia, one elsewhere, one without
\* ip_data.
ProxyEntries ==
  { [proxy |-> <<"a", "1">>, ip_data |-> [continentCode |-> "AS"]],
    [proxy |-> <<"a", "2">>, ip_data |-> [continentCode |-> "AS"]],
    [proxy |-> <<"e", "1">>, ip_data |-> [continentCode |-> "EU"]],
    [proxy |-> <<"x", "1">>, ip_data |-> EmptyDict] }

\* What fetch_proxies can return: lists that name no proxy twice; <<>> also
\* when the provider is unreachable.
ProxyLists ==
  { list \in SeqsUpTo(ProxyEntries, MaxProxies) :
      \A i, j \in 1..Len(list) : list[i] = list[j] => i = j }

\* What get_web_content can return: None, an empty body, a listing.
Responses ==
  {NoContent, [ok |-> TRUE, text |-> <<>>]}
    \cup {[ok |-> TRUE, text |-> h] : h \in CacheHtmls}

Init ==
  /\ pc = "exit"
  /\ SchedIdle
  /\ RecIdle
  /\ NetIdle
  /\ CacheIdle

\* The locals of update_list and of extract_program_links before a run.
FreshRun ==
  /\ proxies' = <<>> /\ asian_proxies' = <<>> /\ proxy_i' = 0
  /\ content' = NoContent /\ requests' = <<>> /\ notifications' = <<>>
  /\ cache_data' = EmptyDict
  /\ html' = <<>> /\ titulos' = <<>> /\ enlaces' = <<>>
  /\ last_date' = None /\ new_enlaces' = <<>> /\ new_titulos' = <<>>

\* main() for the action a: KodiAddonWrapper() builds the CoreAddon, which
\* reads the schedule; handle_action dispatches; the wrapper's update_list
\* loads the cache first (default.py:222).
main ==
  /\ pc \in {"exit", "raised"}
  /\ \E a \in Actions, programs \in CacheSchedules :
       /\ action' = a
       /\ tv_programs' = programs
       /\ FreshRun
       /\ IF a = "menu"
          THEN pc' = "exit" /\ UNCHANGED cacheVars
          ELSE /\ LoadCache
               /\ pc' = IF load_cache(cache_file).raised THEN "raised"
                        ELSE IF Truthy(load_cache(cache_file).cache)
                                  /\ a # "actualizar_lista"
                        THEN "show"
                        ELSE "update_list"
  /\ UNCHANGED schedVars

\* proxies = self.fetch_proxies(PROXIES_URL) ... asian_proxies (core.py:296-304)
fetch_proxies ==
  /\ pc = "update_list"
  /\ \E list \in ProxyLists :
       /\ proxies' = list
       /\ requests' = Append(requests, ProxiesRequest(list))
       /\ IF list = <<>>
          THEN /\ notifications' = Append(notifications, N_NoProxies)
               /\ pc' = "updated"
               /\ UNCHANGED asian_proxies
          ELSE /\ asian_proxies' = filter_asian_proxies(list)
               /\ pc' = "direct"
               /\ UNCHANGED notifications
  /\ UNCHANGED <<schedVars, recVars, action, proxy_i, content, cache_data, cacheVars>>

\* content = self.get_web_content(url_selected) and what follows it up to
\* the first proxy (core.py:306-319, 326-344)
direct ==
  /\ pc = "direct"
  /\ \E response \in Responses :
       LET reqs == Append(requests, Request(PrincipalUrl, None, response))
           notes == Append(notifications, N_Direct)
       IN  IF HasContent(response)
           THEN \E then \in after_connection(response, reqs, notes, Responses) :
                  /\ pc' = then.pc
                  /\ content' = then.content
                  /\ requests' = then.requests
                  /\ notifications' = then.notifications
           ELSE /\ content' = response
                /\ requests' = reqs
                /\ IF asian_proxies = <<>>
                   THEN /\ notifications' = notes \o <<N_Proxies, N_AllProxiesFailed>>
                        /\ pc' = "updated"
                   ELSE /\ notifications' = Append(notes, N_Proxies)
                        /\ pc' = "proxy"
  /\ UNCHANGED <<schedVars, recVars, action, proxies, asian_proxies, proxy_i,
                 cache_data, cacheVars>>

\* One round of for proxy in asian_proxies and what follows the loop
\* (core.py:319-344)
proxy ==
  /\ pc = "proxy"
  /\ \E response \in Responses :
       LET i == proxy_i + 1
           reqs == Append(requests, Request(PrincipalUrl, asian_proxies[i], response))
           notes == Append(notifications, N_Trying(asian_proxies[i]))
           loop == proxy_loop(response, i, Len(asian_proxies))
       IN  /\ proxy_i' = i
           /\ IF loop = "break"
              THEN \E then \in after_connection(response, reqs, notes, Responses) :
                     /\ pc' = then.pc
                     /\ content' = then.content
                     /\ requests' = then.requests
                     /\ notifications' = then.notifications
              ELSE /\ content' = response
                   /\ requests' = reqs
                   /\ IF loop = "next"
                      THEN pc' = "proxy" /\ notifications' = notes
                      ELSE /\ pc' = "updated"
                           /\ notifications' = Append(notes, N_AllProxiesFailed)
  /\ UNCHANGED <<schedVars, recVars, action, proxies, asian_proxies, cache_data, cacheVars>>

\* extract_program_links and extract_channel_links on the content, and
\* cache_data (core.py:346-362)
Extract(fecha) ==
  LET links == extract_program_links(content.text, tv_programs)
  IN  /\ html' = content.text
      /\ titulos' = program_titulos(content.text)
      /\ enlaces' = program_enlaces(content.text)
      /\ last_date' = links.last_date
      /\ new_enlaces' = links.new_enlaces
      /\ new_titulos' = links.new_titulos
      /\ cache_data' = make_cache_data(content, tv_programs, fecha)

\* core.py:346-366, the cache written
save ==
  /\ pc = "extract"
  /\ \E fecha \in Fechas :
       /\ Extract(fecha)
       /\ SaveCache(make_cache_data(content, tv_programs, fecha))
  /\ pc' = "updated"
  /\ UNCHANGED <<schedVars, tv_programs, action, proxies, asian_proxies, proxy_i,
                 content, requests, notifications>>

\* core.py:346-366, the write of the cache failing
save_IOError ==
  /\ pc = "extract"
  /\ \E fecha \in Fechas :
       /\ Extract(fecha)
       /\ SaveCacheIOError(make_cache_data(content, tv_programs, fecha))
  /\ pc' = "updated"
  /\ UNCHANGED <<schedVars, tv_programs, action, proxies, asian_proxies, proxy_i,
                 content, requests, notifications>>

\* The wrapper's update_list after self.core.update_list returned
\* (default.py:225-229), back in handle_action
updated ==
  /\ pc = "updated"
  /\ notifications' = Append(notifications,
                             IF Truthy(cache_data) THEN N_Updated ELSE N_NotUpdated)
  /\ pc' = IF action = "actualizar_lista" THEN "exit" ELSE "show"
  /\ UNCHANGED <<schedVars, recVars, action, proxies, asian_proxies, proxy_i,
                 content, requests, cache_data, cacheVars>>

\* The links of the cache that the action shows or exports.
ShownLinks ==
  IF action = "directos" THEN <<"enlaces_eventos", "titulos_eventos">>
  ELSE <<"enlaces_canal", "titulos_canal">>

\* cache.get(key, [])
dict_get(dict, key) == IF key \in DOMAIN dict THEN dict[key] ELSE <<>>

\* show_directos, show_canales, export_m3u: the cache is loaded and listed
show ==
  /\ pc = "show"
  /\ LoadCache
  /\ LET r == load_cache(cache_file)
     IN  IF r.raised
         THEN pc' = "raised" /\ UNCHANGED notifications
         ELSE /\ pc' = "exit"
              /\ notifications' =
                   IF ~Truthy(r.cache) THEN Append(notifications, N_CacheEmpty)
                   ELSE IF \E k \in 1..2 : dict_get(r.cache, ShownLinks[k]) = <<>>
                   THEN Append(notifications, N_NoLinks)
                   ELSE notifications
  /\ UNCHANGED <<schedVars, recVars, action, proxies, asian_proxies, proxy_i,
                 content, requests, cache_data>>

Next ==
  \/ main
  \/ fetch_proxies
  \/ direct
  \/ proxy
  \/ save
  \/ save_IOError
  \/ updated
  \/ show

Spec == Init /\ [][Next]_vars

----------------------------------------------------------------------------
(* SpecUpdate: one invocation up to the return of core.update_list, every  *)
(* fetch and the write of the cache returning                              *)

\* The fetches of core.update_list (core.py:296-344), and the extraction
\* with the write of the cache that ends it (core.py:346-366).
acquire == fetch_proxies \/ direct \/ proxy
write == save \/ save_IOError

NextUpdate ==
  \/ main
  \/ fetch_proxies
  \/ direct
  \/ proxy
  \/ save
  \/ save_IOError

\* update_list is one sequential call: a step of it that can be taken is
\* taken, each fetch returning or timing out (core.py:200-206, timeout=10).
\* The second condition is WF_vars(write) written out, write being enabled
\* exactly when pc = "extract".
SpecUpdate ==
  /\ Init /\ [][NextUpdate]_vars
  /\ WF_vars(acquire)
  /\ ([]<><<write>>_vars \/ []<>(pc # "extract"))

----------------------------------------------------------------------------
(* SpecSnapshot: the extraction of update_list on a body and a schedule,   *)
(* the reconciliation program by program, then cache_data                  *)

\* enlaces_canal, titulos_canal and cache_data of update_list
\* (core.py:347-362) once extract_program_links has returned
build_cache_data ==
  /\ pc = "returned"
  /\ pc' = "snapshot"
  /\ \E fecha \in Fechas :
       LET canal == extract_channel_links(html)
       IN  cache_data' = [enlaces_eventos |-> new_enlaces,
                          titulos_eventos |-> new_titulos,
                          enlaces_canal |-> canal.enlaces,
                          titulos_canal |-> canal.titulos,
                          origen |-> <<"Servidor Principal">>,
                          fecha |-> fecha]
  /\ UNCHANGED <<schedVars, recVars, action, proxies, asian_proxies, proxy_i,
                 content, requests, notifications, cacheVars>>

NextSnapshot == find_patrones \/ for_program \/ return_program_links \/ build_cache_data

SpecSnapshot == InitReconcile /\ [][NextSnapshot]_vars

----------------------------------------------------------------------------
(* SpecClosest: extract_program_links on bodies whose titles score alike   *)
(* against a channel name                                                  *)

ClosestTexts ==
  { <<"A", "B">>, <<"A", "C">>, <<"B", "A">>, <<"A", "7", "2", "0">>, <<"Z", "X", "T">> }

ClosestHtmls ==
  { [i \in 1..Len(texts) |-> AceAnchor(i, texts[i])] :
      texts \in SeqsUpTo(ClosestTexts, MaxAnchors) }

InitClosest ==
  /\ pc = "extract_program_links"
  /\ SchedIdle
  /\ html \in ClosestHtmls
  /\ titulos = <<>> /\ enlaces = <<>> /\ tv_programs = <<>>
  /\ last_date = None /\ new_enlaces = <<>> /\ new_titulos = <<>>
  /\ NetIdle
  /\ CacheIdle

NextClosest == find_patrones \/ for_program \/ return_program_links

SpecClosest == InitClosest /\ [][NextClosest]_vars

----------------------------------------------------------------------------
(* SpecConcurrent: one process in save_cache and one in load_cache on the  *)
(* same cache file, without a lock (core.py:118-137)                       *)
(* open(..., "w") truncates the file; the buffered writer hands the text   *)
(* to the file in pieces cut at any byte; f.read() of json.load reads up   *)
(* to the end of the file as it is at each read, until a read finds        *)
(* nothing more.                                                           *)

MaxSaves == 2

\* Bytes read from the middle of a chunk that belongs to other text.
Garbled == [tok |-> "garbled"]

\* Snapshots of two bodies whose texts are of equal length, for a schedule
\* whose labels hold a multi-byte character.
RaceHtmls == { << AceAnchor(1, <<"A">>) >>, << AceAnchor(2, <<"A">>) >> }

RaceSnapshots ==
  { make_cache_data([ok |-> TRUE, text |-> h], programs, fecha) :
      h \in RaceHtmls, programs \in CacheSchedules \ {<<>>}, fecha \in Fechas }

\* The length in bytes of a text: two for a multi-byte character.
RECURSIVE TextBytes(_, _)
TextBytes(t, i) ==
  IF i > Len(t) THEN 0
  ELSE (IF t[i] \in MultiByte THEN 2 ELSE 1) + TextBytes(t, i + 1)

RECURSIVE ListBytes(_, _)
ListBytes(l, i) ==
  IF i > Len(l) THEN 0 ELSE TextBytes(l[i], 1) + ListBytes(l, i + 1)

\* The length in bytes of a chunk; of a torn or garbled piece, one.
ChunkBytes(c) ==
  IF c.tok # "member" THEN 1
  ELSE IF c.key \in StrKeys THEN TextBytes(c.value, 1)
  ELSE ListBytes(c.value, 1)

\* The length in bytes of the first n chunks of a file.
RECURSIVE FileBytes(_, _)
FileBytes(file, n) ==
  IF n = 0 THEN 0 ELSE FileBytes(file, n - 1) + ChunkBytes(file[n])

\* How far a write has got: the whole chunks, then a cut chunk.
Written(file) ==
  IF file # <<>> /\ file[Len(file)] = Torn THEN 2 * (Len(file) - 1) + 1
  ELSE 2 * Len(file)

\* The files a write of data can show before it is complete: the first k
\* chunks, and these followed by a piece of a chunk cut inside a multi-byte
\* character.
partial_files(data) ==
  LET full == json_dump(data)
  IN  {SubSeq(full, 1, k) : k \in 0..(Len(full) - 1)}
        \cup {Append(SubSeq(full, 1, k), Torn) :
                k \in {j \in 0..(Len(full) - 1) : HasMultiByte(full[j + 1])}}

\* What a read from byte pos to the end of file adds to buffer: the set of
\* the buffers it can give. A buffer that ends inside a character goes on
\* with the rest of that chunk when the file holds the same chunks before
\* it; a read that starts between two chunks of the file goes on with the
\* chunks that follow; any other starts in the middle of a chunk of other
\* text, which may be the middle of a multi-byte character.
read_more(buffer, pos, file) ==
  LET n == Len(buffer)
      torn == n > 0 /\ buffer[n] = Torn
      at == {k \in 0..Len(file) : FileBytes(file, k) = pos}
      rest(k) == SubSeq(file, k + 1, Len(file))
  IN  IF /\ torn /\ Len(file) >= n /\ HasMultiByte(file[n])
         /\ SubSeq(file, 1, n - 1) = SubSeq(buffer, 1, n - 1)
      THEN {SubSeq(buffer, 1, n - 1) \o rest(n - 1)}
      ELSE IF ~torn /\ at # {}
      THEN {buffer \o rest(k) : k \in at}
      ELSE {Append(buffer, Garbled)}
             \cup (IF \E i \in 1..Len(file) :
                        HasMultiByte(file[i]) /\ FileBytes(file, i) > pos
                   THEN {Append(buffer, Torn)} ELSE {})

InitConcurrent ==
  /\ pc = "concurrent"
  /\ SchedIdle
  /\ RecIdle
  /\ NetIdle
  /\ CacheIdle

\* save_cache(data): open(self.cache_file, "w") (core.py:133)
save_open ==
  /\ saver.at = "idle"
  /\ Len(saves) < MaxSaves
  /\ \E data \in RaceSnapshots :
       /\ saver' = [at |-> "writing", data |-> data]
       /\ saves' = Append(saves, data)
  /\ cache_file' = <<>>
  /\ UNCHANGED <<pc, schedVars, recVars, netVars, cache, cache_op, cache_prev, loader>>

\* json.dump(data, f, ...): a piece of the text reaches the file (core.py:134)
save_write ==
  /\ saver.at = "writing"
  /\ \E file \in partial_files(saver.data) :
       /\ Written(file) > Written(cache_file)
       /\ cache_file' = file
  /\ UNCHANGED <<pc, schedVars, recVars, netVars, cache, cache_op, cache_prev, procVars>>

\* The end of the with block: the rest of the text reaches the file and
\* save_cache returns (core.py:133-135)
save_close ==
  /\ saver.at = "writing"
  /\ cache_file' = written_file(cache_file, saver.data)
  /\ saver' = SaverIdle
  /\ UNCHANGED <<pc, schedVars, recVars, netVars, cache, cache_op, cache_prev,
                 loader, saves>>

\* The process stops midway (killed, or the write raising IOError,
\* core.py:136-137): the file stays as it is.
save_crash ==
  /\ saver.at = "writing"
  /\ saver' = SaverIdle
  /\ UNCHANGED <<pc, schedVars, recVars, netVars, cache_file, cache, cache_op,
                 cache_prev, loader, saves>>

\* What load_cache gives for the text read: the record of the call.
LoadReturns(r) ==
  /\ cache' = r.cache
  /\ cache_prev' = cache_op
  /\ cache_op' = [op |-> "load", data |-> r.cache,
                  status |-> IF r.raised THEN "raised" ELSE "returned",
                  held |-> r.cache]
  /\ loader' = LoaderIdle

\* load_cache(): os.path.exists and open(self.cache_file, "r") (core.py:120-122)
load_open ==
  /\ loader.at = "idle"
  /\ IF cache_file = Missing
     THEN LoadReturns(load_cache(Missing))
     ELSE /\ loader' = [at |-> "reading", buffer |-> <<>>, pos |-> 0]
          /\ UNCHANGED <<cache, cache_op, cache_prev>>
  /\ UNCHANGED <<pc, schedVars, recVars, netVars, cache_file, saver, saves>>

\* One read of f.read() in json.load(f) (core.py:123): it adds what the
\* file holds beyond the buffer; when there is nothing more the text read
\* is decoded and parsed and load_cache returns (core.py:123-128).
load_read ==
  /\ loader.at = "reading"
  /\ IF FileBytes(cache_file, Len(cache_file)) > loader.pos
     THEN /\ \E buffer \in read_more(loader.buffer, loader.pos, cache_file) :
               loader' = [loader EXCEPT !.buffer = buffer,
                                        !.pos = FileBytes(cache_file, Len(cache_file))]
          /\ UNCHANGED <<cache, cache_op, cache_prev>>
     ELSE LoadReturns(load_cache(loader.buffer))
  /\ UNCHANGED <<pc, schedVars, recVars, netVars, cache_file, saver, saves>>

NextConcurrent ==
  \/ save_open
  \/ save_write
  \/ save_close
  \/ save_crash
  \/ load_open
  \/ load_read

SpecConcurrent == InitConcurrent /\ [][NextConcurrent]_vars

----------------------------------------------------------------------------
(* Properties of extract_program_links (SpecReconcile)                     *)

\* The loop takes a program in this step; TakenProgram is that program.
ProgramTaken == pc = "for_program" /\ Len(tv_programs') = Len(tv_programs) + 1
TakenProgram == tv_programs'[Len(tv_programs')]

\* This step appends exactly the rows links/labels, after the day comment
\* when the step emits one.
StepAppends(links, labels) ==
  \E d \in {<<>>, <<DayComment(TakenProgram.day)>>} :
    /\ new_enlaces' = new_enlaces \o d \o links
    /\ new_titulos' = new_titulos \o d \o labels

\* Every entry of the stripped pool scores below 0.5 against the channel.
NoSimilarTitle(program) ==
  LET pool == titulos_without_quality(titulos)
  IN  \A i \in 1..Len(pool) : ~RatioGE(ratio(pool[i], program.channel), Cutoff)

\* C1: a program whose channel is not the alias and scores below 0.5 against
\* every entry of the stripped pool appends exactly one UnmatchedPlaceholder
\* row carrying its channel name.
C1_UnmatchedPlaceholder ==
  [][ (ProgramTaken /\ TakenProgram.channel # MovistarPlus /\ NoSimilarTitle(TakenProgram))
        => StepAppends(<<NoMatchLink(TakenProgram)>>, <<NoMatchLabel(TakenProgram)>>) ]_vars

IsDaySeparator(link) == Len(link) >= 2 /\ link[1] = "#" /\ link[2] = " "

\* The days of the DaySeparator rows of the output, in output order.
SeparatorDays ==
  LET seps == SelectSeq(new_enlaces, IsDaySeparator)
  IN  [i \in 1..Len(seps) |-> SubSeq(seps[i], 3, Len(seps[i]))]

\* The distinct days of programs[1..n] in order of first appearance.
RECURSIVE FirstSeenDays(_, _)
FirstSeenDays(programs, n) ==
  IF n = 0 THEN <<>>
  ELSE LET before == FirstSeenDays(programs, n - 1)
       IN  IF InList(programs[n].day, before) THEN before
           ELSE Append(before, programs[n].day)

\* The day of each maximal run of consecutive programs of one day.
RECURSIVE DayRuns(_, _)
DayRuns(programs, n) ==
  IF n = 0 THEN <<>>
  ELSE IF n > 1 /\ programs[n - 1].day = programs[n].day THEN DayRuns(programs, n - 1)
  ELSE Append(DayRuns(programs, n - 1), programs[n].day)

\* C4 as claimed: the output holds exactly one DaySeparator per distinct day,
\* in order of first appearance, also when days interleave.
C4_OneSeparatorPerDay ==
  pc \in {"for_program", "returned"}
    => SeparatorDays = FirstSeenDays(tv_programs, Len(tv_programs))

\* C4 as amended: the output holds exactly one DaySeparator per maximal run of
\* consecutive programs of the same day, in schedule order, and each separator
\* row has its link equal to its title.
C4_OneSeparatorPerRun ==
  pc \in {"for_program", "returned"}
    => /\ SeparatorDays = DayRuns(tv_programs, Len(tv_programs))
       /\ \A i \in 1..Len(new_enlaces) :
            IsDaySeparator(new_enlaces[i]) => new_titulos[i] = new_enlaces[i]

\* Days L, M, L were reconciled: three separators for two distinct days.
C4_Witness ==
  /\ pc = "returned"
  /\ Len(tv_programs) = 3
  /\ tv_programs[1].day = tv_programs[3].day
  /\ tv_programs[1].day # tv_programs[2].day
  /\ Len(SeparatorDays) = 3

\* The play link of the last stream anchor of the body whose text strips to title.
AnchorLink(title) ==
  LET at == {i \in 1..Len(html) :
               html[i].href[1] = AceScheme /\ strip(html[i].text) = title}
      last == CHOOSE i \in at : \A j \in at : j <= i
  IN  <<HorusScheme>> \o Tail(html[last].href)

\* The PlayableItem of a program for a raw title, when the title exists.
PlayableLinks(program, title) ==
  IF InList(title, titulos) THEN <<AnchorLink(title)>> ELSE <<>>

PlayableLabels(program, title) ==
  IF InList(title, titulos)
  THEN << program.sport \o <<" ">> \o program.time \o <<" ">> \o program.event
            \o <<" ", "(">> \o title \o <<")">> >>
  ELSE <<>>

\* The PlayableItems of a program for a base: base+"720", base+"1080", base.
VariantLinks(program, base) ==
  PlayableLinks(program, base \o Q720) \o PlayableLinks(program, base \o Q1080)
    \o PlayableLinks(program, base)

VariantLabels(program, base) ==
  PlayableLabels(program, base \o Q720) \o PlayableLabels(program, base \o Q1080)
    \o PlayableLabels(program, base)

\* if closest_tvg_id: (core.py:247)
MatchedBase(base) == base # None /\ base # <<>>

C7_AliasShortcut ==
  [][ (ProgramTaken /\ TakenProgram.channel = MovistarPlus)
        => IF VariantLinks(TakenProgram, MPlus1080) # <<>>
           THEN StepAppends(VariantLinks(TakenProgram, MPlus1080),
                            VariantLabels(TakenProgram, MPlus1080))
           ELSE StepAppends(<<NoMatchLink(TakenProgram)>>,
                            <<NoMatchLabel(TakenProgram)>>) ]_vars

\* The alias program was taken with raw titles none of which is a variant of
\* "M.Plus 1080"; it gave a placeholder as its only row.
C7_Witness ==
  /\ pc = "for_program"
  /\ tv_programs # <<>>
  /\ tv_programs[Len(tv_programs)].channel = MovistarPlus
  /\ titulos # <<>>
  /\ ~InList(MPlus1080, titulos)
  /\ ~InList(MPlus1080 \o Q720, titulos)
  /\ new_enlaces # <<>>
  /\ new_enlaces[Len(new_enlaces)] = NoMatchLink(tv_programs[Len(tv_programs)])

----------------------------------------------------------------------------
(* Properties of get_tv_programs (SpecSchedule)                            *)

DailyRows == {i \in 1..Len(page) : page[i].li = "dailyevent"}
SectionsOfPage == {i \in 1..Len(page) : page[i].li = "content-item"}

\* The day section a row lies in.
SectionOf(i) == CHOOSE j \in SectionsOfPage : j < i /\ \A k \in SectionsOfPage : k < i => k <= j

\* The row is read: its section is not the first of the page and has a day.
RowRead(i) ==
  /\ \E j \in SectionsOfPage : j < SectionOf(i)
  /\ page[SectionOf(i)].span # None

RowEvent(i) ==
  Event(strip(page[SectionOf(i)].span), text_or_na(page[i].hour),
        text_or_na(page[i].teams), text_or_na(page[i].channel),
        text_or_na(page[i].sport))

RowKey(i) == <<RowEvent(i).day, RowEvent(i).time, RowEvent(i).event, RowEvent(i).channel>>

\* The read rows that are the first of their (day, time, title, channel).
FirstRows ==
  {i \in DailyRows : RowRead(i) /\ \A j \in DailyRows : (j < i /\ RowRead(j)) => RowKey(j) # RowKey(i)}

\* C8: get_tv_programs holds no two Events equal on (day, time, title,
\* channel); it holds exactly the first row of each such tuple among the rows
\* of the day sections after the first, in document order.
C8_DedupFirstWinsInOrder ==
  /\ \A k, l \in 1..Len(events_data) :
       k # l => <<events_data[k].day, events_data[k].time, events_data[k].event,
                  events_data[k].channel>>
                # <<events_data[l].day, events_data[l].time, events_data[l].event,
                    events_data[l].channel>>
  /\ Len(events_data) = Cardinality(FirstRows)
  /\ \A i \in FirstRows :
       events_data[Cardinality({j \in FirstRows : j <= i})] = RowEvent(i)
  /\ pc = "returned" => tv_programs = events_data

\* A page whose read rows repeat a tuple with another sport label, after a
\* first section holding a row, was parsed and returned.
C8_Witness ==
  /\ pc = "returned"
  /\ \E i, j \in DailyRows :
       /\ i < j /\ RowRead(i) /\ RowRead(j)
       /\ RowKey(i) = RowKey(j)
       /\ RowEvent(i).sport # RowEvent(j).sport
  /\ \E i \in DailyRows : ~RowRead(i)
  /\ Len(tv_programs) = 1

----------------------------------------------------------------------------
(* Properties of update_list (Spec)                                        *)

IsDirect(request) == request.url = PrincipalUrl /\ request.proxy = None
IsProxied(request) == request.url = PrincipalUrl /\ request.proxy # None
IsFallback(request) == request.url = EspejoUrl /\ request.proxy = None
IsProxyList(request) == request.url = PROXIES_URL

\* The direct fetch of the primary URL was made before request i and failed.
DirectFailedBefore(i) ==
  \E j \in 1..(i - 1) : IsDirect(requests[j]) /\ ~requests[j].got

DirectFailed == DirectFailedBefore(Len(requests) + 1)

ProxiedRequests == SelectSeq(requests, IsProxied)

\* Every proxy of asian_proxies was tried and none gave content.
ProxiesExhausted ==
  /\ Len(ProxiedRequests) = Len(asian_proxies)
  /\ \A i \in 1..Len(ProxiedRequests) : ~ProxiedRequests[i].got

\* core.update_list has returned cache_data to the wrapper.
UpdateReturned == pc = "updated"

\* cache_data is the snapshot of content and the schedule.
SnapshotOfContent ==
  /\ Truthy(cache_data)
  /\ cache_data = make_cache_data(content, tv_programs, cache_data.fecha)
  /\ html = content.text

\* C2: when the direct fetch of the primary URL has failed and every proxy
\* candidate has been tried without success (there may be none), the fallback
\* URL is fetched without a proxy; its non-empty body is the content of the
\* update, and the update fails only if that fetch fails too.
C2_FallbackAfterExhaustion ==
  (UpdateReturned /\ DirectFailed /\ ProxiesExhausted) =>
    /\ IsFallback(requests[Len(requests)])
    /\ requests[Len(requests)].got <=> Truthy(cache_data)
    /\ requests[Len(requests)].got => SnapshotOfContent

\* C3: the direct fetch of the primary URL comes first and the proxy list is
\* fetched only after the direct fetch has failed; so an update fails only
\* after a failed direct fetch, whatever the proxy provider returns.
C3_DirectFirst ==
  /\ \A i \in 1..Len(requests) : IsProxyList(requests[i]) => DirectFailedBefore(i)
  /\ (UpdateReturned /\ ~Truthy(cache_data)) => DirectFailed

\* C5: when the direct fetch has failed and the fetch through proxy k is the
\* first to return content, the proxies 1..k of the candidate list were tried
\* in order, nothing is fetched after proxy k (no later proxy, no fallback
\* URL), and that content is what is parsed and handed to save_cache.
C5_ProxyShortCircuit ==
  \A k \in 1..Len(requests) :
    (IsProxied(requests[k]) /\ requests[k].got) =>
      /\ DirectFailedBefore(k)
      /\ k = Len(requests)
      /\ Len(ProxiedRequests) <= Len(asian_proxies)
      /\ \A j \in 1..Len(ProxiedRequests) : ProxiedRequests[j].proxy = asian_proxies[j]
      /\ HasContent(content)
      /\ pc \in {"extract", "updated", "show", "exit", "raised"}
      /\ pc # "extract" => SnapshotOfContent
      /\ UpdateReturned =>
           /\ cache_op.op = "save"
           /\ cache_op.data = cache_data
           /\ cache_op.status = "saved" => load_cache(cache_file).cache = cache_data

\* The first of two proxies gave content after the direct fetch failed; the
\* update returned its snapshot and the cache file holds it.
C5_Witness ==
  /\ UpdateReturned
  /\ Len(asian_proxies) = 2
  /\ Len(requests) = 3
  /\ IsProxied(requests[3]) /\ requests[3].got
  /\ requests[3].proxy = asian_proxies[1]
  /\ cache_op.status = "saved"
  /\ Truthy(cache_data)

----------------------------------------------------------------------------
(* Properties of load_cache and save_cache (SpecCache)                     *)

\* The last two cache calls are a save_cache whose write completed and then
\* a load_cache.
LoadAfterSave ==
  /\ cache_op.op = "load"
  /\ cache_prev.op = "save"
  /\ cache_prev.status = "saved"

\* C9: save_cache(S) followed at once by load_cache() returns a mapping equal
\* to S field by field, whatever the cache file held before the save; nothing
\* of what the file held before survives in the file or in the mapping.
C9_SaveThenLoad ==
  LoadAfterSave =>
    /\ cache_op.status = "returned"
    /\ cache = cache_prev.data
    /\ DOMAIN cache = DOMAIN cache_prev.data
    /\ \A key \in DOMAIN cache : cache[key] = cache_prev.data[key]
    /\ cache_file = json_dump(cache_prev.data)

\* A snapshot with quotes, backslashes and a multi-byte character is saved over
\* a file that held another, non-empty, snapshot and is loaded back.
C9_Witness ==
  /\ LoadAfterSave
  /\ cache_prev.held # EmptyDict
  /\ cache_prev.held # cache
  /\ cache # EmptyDict
  /\ \E i \in 1..Len(cache.titulos_canal) :
       \E j \in 1..Len(cache.titulos_canal[i]) : cache.titulos_canal[i][j] = "\\"
  /\ \E i \in 1..Len(cache.titulos_eventos) :
       \E j \in 1..Len(cache.titulos_eventos[i]) : cache.titulos_eventos[i][j] \in MultiByte

\* The cache file is there and its text is a JSON document.
WellFormed(file) == file # Missing /\ ~Undecodable(file) /\ IsJson(file)

\* The step is a call of load_cache.
LoadStep == cache_op'.op = "load" /\ cache_prev' = cache_op

\* C10: load_cache never raises to its caller; on a missing cache file and on
\* a malformed payload it returns the empty mapping; the load leaves the cache
\* file as it found it.
C10_LoadNeverRaises ==
  [][LoadStep =>
       /\ cache_op'.status # "raised"
       /\ ~WellFormed(cache_file) => cache' = EmptyDict
       /\ cache_file' = cache_file]_vars

----------------------------------------------------------------------------
(* Properties of the extracted lists (SpecSnapshot)                        *)

\* The link and the title are those of one row of a program of the schedule:
\* its day comment, its placeholder, or its item for a raw title.
EventRow(link, title) ==
  \/ \E k \in 1..Len(tv_programs) :
       \/ link = DayComment(tv_programs[k].day) /\ title = DayComment(tv_programs[k].day)
       \/ link = NoMatchLink(tv_programs[k]) /\ title = NoMatchLabel(tv_programs[k])
  \/ \E i \in 1..Len(titulos) :
       /\ link = AnchorLink(titulos[i])
       /\ \E k \in 1..Len(tv_programs) : title = EventLabel(tv_programs[k], titulos[i])

EventRowsAligned(links, titles) ==
  /\ Len(links) = Len(titles)
  /\ \A i \in 1..Len(links) : EventRow(links[i], titles[i])

\* Entry i of both lists is made from the i-th acestream anchor of the body:
\* its rewritten link, and its stripped text followed by the last four
\* characters of the stream id of that link.
ChannelRowsAligned(links, titles) ==
  /\ Len(links) = Len(titles)
  /\ Len(links) = Len(patrones(html))
  /\ \A i \in 1..Len(links) :
       /\ links[i] = <<HorusScheme>> \o Tail(patrones(html)[i].href)
       /\ titles[i] = strip(patrones(html)[i].text) \o <<" ">>
                        \o LastChars(Tail(links[i]), 4)

\* C11: at every point of the reconciliation the event link list and the event
\* title list have the same length and entry i of both is the same row; the
\* snapshot update_list builds holds these two lists as they are, and its
\* channel link and title lists are aligned in the same way.
C11_ListsAligned ==
  /\ EventRowsAligned(new_enlaces, new_titulos)
  /\ pc = "snapshot" =>
       /\ cache_data.enlaces_eventos = new_enlaces
       /\ cache_data.titulos_eventos = new_titulos
       /\ ChannelRowsAligned(cache_data.enlaces_canal, cache_data.titulos_canal)

\* A snapshot with a day comment, an item and a placeholder among its event
\* rows and two channel rows of different links.
C11_Witness ==
  /\ pc = "snapshot"
  /\ Len(cache_data.enlaces_eventos) >= 3
  /\ \E i, j, k \in 1..Len(cache_data.enlaces_eventos) :
       /\ cache_data.enlaces_eventos[i] = cache_data.titulos_eventos[i]
       /\ cache_data.enlaces_eventos[j][1] = HorusScheme
       /\ \E n \in 1..Len(tv_programs) :
            cache_data.enlaces_eventos[k] = NoMatchLink(tv_programs[n])
  /\ Len(cache_data.enlaces_canal) >= 2
  /\ cache_data.enlaces_canal[1] # cache_data.enlaces_canal[2]

\* The row is a day comment, a placeholder, an item of a raw title.
IsSeparatorRow(link, title) ==
  \E k \in 1..Len(tv_programs) :
    link = DayComment(tv_programs[k].day) /\ title = DayComment(tv_programs[k].day)

IsPlaceholderRow(link, title) ==
  \E k \in 1..Len(tv_programs) :
    link = NoMatchLink(tv_programs[k]) /\ title = NoMatchLabel(tv_programs[k])

IsPlayableRow(link, title) ==
  \E i \in 1..Len(titulos) :
    /\ link = AnchorLink(titulos[i])
    /\ \E k \in 1..Len(tv_programs) : title = EventLabel(tv_programs[k], titulos[i])

\* C12: in the reconciled event rows a link begins with "#" exactly when the
\* row is a DaySeparator or an UnmatchedPlaceholder; the link of a
\* PlayableItem is the rewritten link of an acestream anchor of the body and
\* does not begin with "#"; show_directos marks a row playable exactly when
\* it is a PlayableItem.
C12_HashMarksLabelRows ==
  \A items \in {directory_items(new_titulos, new_enlaces)} :
    \A i \in 1..Len(new_enlaces) :
      \A playable \in {IsPlayableRow(new_enlaces[i], new_titulos[i])} :
        LET link == new_enlaces[i]
            title == new_titulos[i]
        IN  /\ startswith_hash(link) <=>
                 (IsSeparatorRow(link, title) \/ IsPlaceholderRow(link, title))
            /\ playable =>
                 /\ ~startswith_hash(link)
                 /\ \E a \in 1..Len(html) :
                      /\ html[a].href[1] = AceScheme
                      /\ link = <<HorusScheme>> \o Tail(html[a].href)
            /\ items[i].IsPlayable <=> playable
            /\ items[i].url = link /\ items[i].label = title

\* The rows of the snapshot hold a separator, an item listed as playable
\* and a placeholder listed as not playable.
C12_Witness ==
  /\ pc = "snapshot"
  /\ \E i, j, k \in 1..Len(new_enlaces) :
       LET items == directory_items(cache_data.titulos_eventos, cache_data.enlaces_eventos)
       IN  /\ IsSeparatorRow(new_enlaces[i], new_titulos[i]) /\ ~items[i].IsPlayable
           /\ IsPlayableRow(new_enlaces[j], new_titulos[j]) /\ items[j].IsPlayable
           /\ IsPlaceholderRow(new_enlaces[k], new_titulos[k]) /\ ~items[k].IsPlayable

----------------------------------------------------------------------------
(* Properties of update_list: notifications, cache, termination (Spec)     *)

\* core.update_list has returned and its last fetch gave nothing: no proxy
\* list, or no content.
AcquisitionFailed == UpdateReturned /\ ~requests[Len(requests)].got

IsError(notification) == notification[1] = "Error"

NotifiedAt(n, i) == i \in 1..Len(notifications) /\ notifications[i] = n

\* C14: update_list notifies each phase of the acquisition chain, in this
\* order: attempting direct once the direct fetch is made, attempting proxy
\* once a proxied fetch is made, proxy exhausted once the last proxy has
\* failed, and then attempting fallback, with the fallback URL fetched.
C14_PhaseNotifications ==
  /\ (\E r \in 1..Len(requests) : IsDirect(requests[r])) => NotifiedAt(N_Direct, 1)
  /\ ProxiedRequests # <<>> =>
       /\ NotifiedAt(N_Direct, 1)
       /\ NotifiedAt(N_Proxies, 2)
       /\ NotifiedAt(N_Trying(asian_proxies[1]), 3)
  /\ (UpdateReturned /\ DirectFailed /\ ProxiesExhausted) =>
       \E e \in 3..Len(notifications) :
         /\ NotifiedAt(N_Direct, 1)
         /\ NotifiedAt(N_Proxies, 2)
         /\ NotifiedAt(N_AllProxiesFailed, e)
         /\ e < Len(notifications)
         /\ IsFallback(requests[Len(requests)])

----------------------------------------------------------------------------
(* Properties of find_closest_channel (SpecClosest)                        *)

\* The positions of the pool whose ratio to the channel name is at least
\* 0.5 and is the greatest of the pool.
BestOfPool(channel_name, pool) ==
  {i \in 1..Len(pool) :
     /\ RatioGE(ratio(pool[i], channel_name), Cutoff)
     /\ \A j \in 1..Len(pool) :
          RatioGE(ratio(pool[i], channel_name), ratio(pool[j], channel_name))}

\* The programs find_closest_channel was called for (core.py:239-244).
SimilarityPrograms ==
  {k \in 1..Len(tv_programs) : tv_programs[k].channel # MovistarPlus}

\* C15: find_closest_channel returns a pool entry whose ratio to the channel
\* name is the greatest of the pool and at least 0.5; of several such entries
\* it returns the one that comes first in the pool; it returns no match when
\* no entry reaches 0.5.
C15_FirstOfBest ==
  \A k \in SimilarityPrograms :
    \A pool \in {titulos_without_quality(titulos)} :
      \A best \in {BestOfPool(tv_programs[k].channel, pool)} :
        \A closest \in {find_closest_channel(tv_programs[k].channel, pool)} :
          IF best = {} THEN closest = None
          ELSE closest = pool[CHOOSE i \in best : \A j \in best : i <= j]

\* C15 as the code has it: of several entries of the greatest ratio
\* find_closest_channel returns the one that is greatest as a string.
C15_GreatestOfBest ==
  \A k \in SimilarityPrograms :
    \A pool \in {titulos_without_quality(titulos)} :
      \A best \in {BestOfPool(tv_programs[k].channel, pool)} :
        \A closest \in {find_closest_channel(tv_programs[k].channel, pool)} :
          IF best = {} THEN closest = None
          ELSE /\ \E i \in best : closest = pool[i]
               /\ \A i \in best : ~StrLess(closest, pool[i])

\* The channel "A" was matched against a pool where "AB" comes before "AC"
\* and both have the greatest ratio; the program's row is the one of "AC".
C15_Witness ==
  /\ pc = "for_program"
  /\ tv_programs # <<>>
  /\ tv_programs[Len(tv_programs)].channel = <<"A">>
  /\ titulos = << <<"A", "B">>, <<"A", "C">>, <<"Z", "X", "T">> >>
  /\ BestOfPool(<<"A">>, titulos_without_quality(titulos)) = {1, 2}
  /\ find_closest_channel(<<"A">>, titulos_without_quality(titulos)) = <<"A", "C">>
  /\ new_titulos[Len(new_titulos)]
       = EventLabel(tv_programs[Len(tv_programs)], <<"A", "C">>)

----------------------------------------------------------------------------
(* Properties of the cache under update_list (Spec)                        *)

\* The step is one of core.update_list.
UpdateStep == pc \in {"update_list", "direct", "proxy", "extract"}

\* C16: a step of update_list that returns a snapshot has called save_cache
\* once, with the mapping it returns, and a save that completes leaves the
\* cache file holding that mapping; every other step of update_list, the
\* returns of the empty result among them, calls no cache operation and
\* leaves the cache file as the update found it.
C16_CacheWrittenOnSuccessOnly ==
  [][UpdateStep =>
       IF pc' = "updated" /\ Truthy(cache_data')
       THEN /\ pc = "extract"
            /\ cache_op'.op = "save"
            /\ cache_op'.data = cache_data'
            /\ cache_prev' = cache_op
            /\ cache_op'.status = "saved" => cache_file' = json_dump(cache_data')
            /\ cache' = cache
       ELSE /\ cache_data' = EmptyDict
            /\ UNCHANGED cacheVars]_vars

\* An update returned the empty result while the cache file held a
\* snapshot: the last cache call is the load of the wrapper, not a save.
C16_Witness ==
  /\ UpdateReturned
  /\ ~Truthy(cache_data)
  /\ action = "actualizar_lista"
  /\ WellFormed(cache_file)
  /\ Truthy(json_load(cache_file))
  /\ cache_op.op = "load"
  /\ cache = json_load(cache_file)

----------------------------------------------------------------------------
(* Properties of the wrapper (Spec)                                        *)

\* The step is main(): no invocation is running before it.
MainStep == pc \in {"exit", "raised"}

\* load_cache returns the empty mapping on this cache file.
LoadsEmpty(file) == ~load_cache(file).raised /\ load_cache(file).cache = EmptyDict

\* The cache file holds a non-empty snapshot.
SnapshotCached(file) == WellFormed(file) /\ Truthy(json_load(file))

\* C17: for directos, canales and exportar_m3u the wrapper runs the update
\* exactly when load_cache returns the empty mapping at the time of the
\* action; for actualizar_lista it always runs it; a cache file that holds a
\* non-empty snapshot changes only in an invocation of actualizar_lista.
C17_UpdateRunsWhenEmptyOrAsked ==
  [][ /\ MainStep =>
           /\ action' \in {"directos", "canales", "exportar_m3u"} =>
                (pc' = "update_list" <=> LoadsEmpty(cache_file))
           /\ action' = "actualizar_lista" => pc' = "update_list"
      /\ (SnapshotCached(cache_file) /\ cache_file' # cache_file) =>
           action = "actualizar_lista" ]_vars

----------------------------------------------------------------------------
(* Properties of the rows of one program (SpecReconcile)                   *)

\* The index of new_enlaces' from which the rows of the taken program start:
\* after the rows held before the step and after the day comment, which the
\* step appends when the program's day is not last_date.
ContributedFrom ==
  Len(new_enlaces) + (IF TakenProgram.day # last_date THEN 2 ELSE 1)

ContributedLinks == SubSeq(new_enlaces', ContributedFrom, Len(new_enlaces'))
ContributedTitles == SubSeq(new_titulos', ContributedFrom, Len(new_titulos'))

\* Row i of the taken program is its placeholder; is one of its items.
ContributedPlaceholder(i) ==
  /\ ContributedLinks[i] = NoMatchLink(TakenProgram)
  /\ ContributedTitles[i] = NoMatchLabel(TakenProgram)

ContributedPlayable(i) ==
  \E t \in 1..Len(titulos) :
    /\ ContributedLinks[i] = AnchorLink(titulos[t])
    /\ ContributedTitles[i] = EventLabel(TakenProgram, titulos[t])

\* C18: the rows a program contributes, its day comment left out, are at
\* most three, each is its placeholder or one of its items, and its
\* placeholder is among them only if none of its items is.
C18_AtMostThreeRows ==
  [][ ProgramTaken =>
        /\ Len(ContributedLinks) <= 3
        /\ Len(ContributedTitles) = Len(ContributedLinks)
        /\ \A i \in 1..Len(ContributedLinks) :
             ContributedPlaceholder(i) \/ ContributedPlayable(i)
        /\ \A i, j \in 1..Len(ContributedLinks) :
             ~(ContributedPlaceholder(i) /\ ContributedPlayable(j)) ]_vars

\* A program was taken that gave three items, and one that gave its
\* placeholder alone.
C18_Witness ==
  /\ pc = "returned"
  /\ Len(tv_programs) = 2
  /\ tv_programs[1].day = tv_programs[2].day
  /\ Len(new_enlaces) = 5
  /\ \A i \in 2..4 : new_enlaces[i][1] = HorusScheme
  /\ new_enlaces[5] = NoMatchLink(tv_programs[2])
  /\ new_titulos[5] = NoMatchLabel(tv_programs[2])

\* Row k of the output after the step is a DaySeparator: its link is its
\* title. SeparatorDay is the day it names.
SeparatorAt(k) == new_enlaces'[k] = new_titulos'[k]
SeparatorDay(k) == SubSeq(new_enlaces'[k], 3, Len(new_enlaces'[k]))

\* C19: an iteration leaves the rows of the earlier programs as they are and
\* appends its own after them, so rows follow schedule order; each row the
\* program contributes has before it a DaySeparator of the program's day
\* with no DaySeparator of another day between the two.
C19_ScheduleOrderUnderDay ==
  [][ ProgramTaken =>
        /\ Len(new_enlaces') >= Len(new_enlaces)
        /\ SubSeq(new_enlaces', 1, Len(new_enlaces)) = new_enlaces
        /\ SubSeq(new_titulos', 1, Len(new_titulos)) = new_titulos
        /\ \A r \in ContributedFrom..Len(new_enlaces') :
             \E k \in 1..(r - 1) :
               /\ SeparatorAt(k)
               /\ SeparatorDay(k) = TakenProgram.day
               /\ \A m \in (k + 1)..(r - 1) :
                    SeparatorAt(m) => SeparatorDay(m) = TakenProgram.day ]_vars

\* Programs of days L, M, L each contributed a row: the row of the third
\* stands under its own separator, the third of the output.
C19_Witness ==
  /\ pc = "returned"
  /\ Len(tv_programs) = 3
  /\ tv_programs[1].day = tv_programs[3].day
  /\ tv_programs[1].day # tv_programs[2].day
  /\ Len(new_enlaces) = 6
  /\ \A i \in {1, 3, 5} : new_enlaces[i] = new_titulos[i]
  /\ \A i \in {2, 4, 6} : new_enlaces[i] # new_titulos[i]
  /\ new_enlaces[5] = DayComment(tv_programs[3].day)

----------------------------------------------------------------------------
(* Properties of update_list: termination and fetches (SpecUpdate)         *)

\* The proxies of the entries list[i..] whose ip_data names continent AS.
RECURSIVE AsianOf(_, _)
AsianOf(list, i) ==
  IF i > Len(list) THEN <<>>
  ELSE (IF /\ list[i].ip_data # EmptyDict
           /\ "continentCode" \in DOMAIN list[i].ip_data
           /\ list[i].ip_data["continentCode"] = "AS"
        THEN <<list[i].proxy>> ELSE <<>>) \o AsianOf(list, i + 1)

\* The number of fetches of the running invocation that satisfy Is.
Fetches(Is(_)) == Cardinality({i \in 1..Len(requests) : Is(requests[i])})

\* The fetches made so far: at most one of the proxy list, one direct, one
\* of the fallback URL, and through proxies the first entries, in order, of
\* the provider's list narrowed to continent AS.
FetchesBounded ==
  /\ \A i \in 1..Len(requests) :
       \/ IsProxyList(requests[i]) \/ IsDirect(requests[i])
       \/ IsProxied(requests[i]) \/ IsFallback(requests[i])
  /\ Fetches(IsProxyList) <= 1
  /\ Fetches(IsDirect) <= 1
  /\ Fetches(IsFallback) <= 1
  /\ Len(ProxiedRequests) <= Len(AsianOf(proxies, 1))
  /\ \A j \in 1..Len(ProxiedRequests) :
       ProxiedRequests[j].proxy = AsianOf(proxies, 1)[j]

----------------------------------------------------------------------------
(* Properties of save_cache and load_cache side by side (SpecConcurrent)   *)

\* C21: a load_cache that runs while another process is in save_cache, at
\* whatever point of the write and also after the write stopped midway,
\* does not raise, and returns the empty mapping or a whole snapshot that
\* was handed to save_cache; it never returns part of a snapshot.
C21_LoadSeesWholeOrNothing ==
  [][LoadStep =>
       /\ cache_op'.status # "raised"
       /\ \/ cache' = EmptyDict
          \/ \E i \in 1..Len(saves) : cache' = saves[i] ]_vars

====
